---- MODULE Spec2Model ----
(***************************************************************************)
(* Model of the GitLab RAG chatbot repository.                             *)
(*   scraper.py : GitLabScraper, a breadth-first crawler that writes the   *)
(*                text of every page it processes to a corpus file.        *)
(*   app.py     : the chat application (denylist guardrail, retrieval,     *)
(*                generation, follow-up suggestions).                      *)
(* Strings are TLA+ strings; the URL and text functions work on their      *)
(* characters, as the Python code does.                                    *)
(***************************************************************************)
EXTENDS Integers, Sequences, FiniteSets, TLC

VARIABLES start_urls, to_visit, visited_urls, output_file, page_count,
          max_pages, pc, last, writes, enqueued,
          GEMINI_API_KEY, vector_db, messages, user_query, calls

crawlVars == <<start_urls, to_visit, visited_urls, output_file, page_count,
               max_pages, pc, last, writes, enqueued>>
chatVars == <<GEMINI_API_KEY, vector_db, messages, user_query, calls>>
vars == <<start_urls, to_visit, visited_urls, output_file, page_count,
          max_pages, pc, last, writes, enqueued,
          GEMINI_API_KEY, vector_db, messages, user_query, calls>>

(***************************************************************************)
(* Bounds of the model.                                                    *)
(***************************************************************************)
MaxBudget == 3
MaxTurns == 2

(***************************************************************************)
(* Python evaluates an assignment once: Let(v, F) is F applied to the      *)
(* value of v.                                                             *)
(***************************************************************************)
Let(v, F(_)) == CHOOSE r \in {F(x) : x \in {v}} : TRUE

(***************************************************************************)
(* Python string primitives.                                               *)
(***************************************************************************)
CharAt(s, i) == SubSeq(s, i, i)

Chars(s) == {CharAt(s, i) : i \in 1..Len(s)}

startswith(s, p) == Len(p) <= Len(s) /\ SubSeq(s, 1, Len(p)) = p

\* s[i:] for a 0-based Python index i, written with the 1-based index i+1
From(s, i) == SubSeq(s, i, Len(s))

\* least index >= i of s holding a character of cs, Len(s) + 1 when none does
RECURSIVE FirstFrom(_, _, _)
FirstFrom(s, cs, i) ==
    IF i > Len(s) THEN Len(s) + 1
    ELSE IF CharAt(s, i) \in cs THEN i
    ELSE FirstFrom(s, cs, i + 1)

FirstOf(s, cs) == FirstFrom(s, cs, 1)

UpperLetters == "ABCDEFGHIJKLMNOPQRSTUVWXYZ"
LowerLetters == "abcdefghijklmnopqrstuvwxyz"
Digits == "0123456789"

LowerChar(c) ==
    IF c \in Chars(UpperLetters)
    THEN CharAt(LowerLetters, FirstOf(UpperLetters, {c}))
    ELSE c

RECURSIVE lower(_)
lower(s) == IF s = "" THEN "" ELSE LowerChar(Head(s)) \o lower(Tail(s))

Whitespace == {" ", "\n", "\t", "\r"}

RECURSIVE lstrip(_)
lstrip(s) == IF s # "" /\ Head(s) \in Whitespace THEN lstrip(Tail(s)) ELSE s

RECURSIVE rstrip(_)
rstrip(s) ==
    IF s # "" /\ CharAt(s, Len(s)) \in Whitespace
    THEN rstrip(SubSeq(s, 1, Len(s) - 1))
    ELSE s

strip(s) == rstrip(lstrip(s))

\* str.split(sep) for a one-character separator
RECURSIVE split(_, _)
split(s, sep) ==
    Let(FirstOf(s, {sep}), LAMBDA i :
        IF i > Len(s) THEN <<s>>
        ELSE <<SubSeq(s, 1, i - 1)>> \o split(From(s, i + 1), sep))

RECURSIVE Repeat(_, _)
Repeat(s, n) == IF n = 0 THEN "" ELSE s \o Repeat(s, n - 1)

(***************************************************************************)
(* urllib.parse, for URLs without ';' parameters and '.' path segments.    *)
(***************************************************************************)
SchemeChars == Chars(UpperLetters) \cup Chars(LowerLetters) \cup Chars(Digits)
                 \cup {"+", "-", "."}

urlparse(url) ==
    Let(FirstOf(url, {":"}), LAMBDA colon :
    Let(/\ colon <= Len(url)
        /\ colon > 1
        /\ Chars(SubSeq(url, 1, colon - 1)) \subseteq SchemeChars
        /\ Head(url) \notin Chars(Digits) \cup {"+", "-", "."}, LAMBDA hasScheme :
    Let(IF hasScheme THEN From(url, colon + 1) ELSE url, LAMBDA rest :
    Let(startswith(rest, "//"), LAMBDA hasNetloc :
    Let(IF hasNetloc THEN From(rest, 3) ELSE rest, LAMBDA afterSlashes :
    Let(FirstOf(afterSlashes, {"/", "?", "#"}), LAMBDA delim :
    Let(IF hasNetloc THEN From(afterSlashes, delim) ELSE rest, LAMBDA rest2 :
    Let(FirstOf(rest2, {"#"}), LAMBDA hash :
    Let(SubSeq(rest2, 1, hash - 1), LAMBDA rest3 :
    Let(FirstOf(rest3, {"?"}), LAMBDA qmark :
        [scheme |-> IF hasScheme THEN lower(SubSeq(url, 1, colon - 1)) ELSE "",
         netloc |-> IF hasNetloc THEN SubSeq(afterSlashes, 1, delim - 1) ELSE "",
         path |-> SubSeq(rest3, 1, qmark - 1),
         query |-> From(rest3, qmark + 1),
         fragment |-> From(rest2, hash + 1)]))))))))))

urlunparse(p) ==
    (IF p.scheme # "" THEN p.scheme \o ":" ELSE "")
    \o (IF p.netloc # "" THEN "//" \o p.netloc ELSE "")
    \o p.path
    \o (IF p.query # "" THEN "?" \o p.query ELSE "")
    \o (IF p.fragment # "" THEN "#" \o p.fragment ELSE "")

UsesRelative == {"http", "https", "ftp", "file", ""}

\* directory of a base path: everything up to and including its last '/'
RECURSIVE DirOf(_)
DirOf(path) ==
    IF path = "" THEN "/"
    ELSE IF CharAt(path, Len(path)) = "/" THEN path
    ELSE DirOf(SubSeq(path, 1, Len(path) - 1))

urljoin(base, url) ==
    Let(urlparse(base), LAMBDA b :
    Let(urlparse(url), LAMBDA u :
    Let(IF u.scheme = "" THEN b.scheme ELSE u.scheme, LAMBDA scheme :
        IF url = "" THEN base
        ELSE IF scheme # b.scheme \/ scheme \notin UsesRelative THEN url
        ELSE IF u.netloc # "" THEN urlunparse([u EXCEPT !.scheme = scheme])
        ELSE IF u.path = ""
             THEN urlunparse([scheme |-> scheme, netloc |-> b.netloc,
                              path |-> b.path,
                              query |-> IF u.query = "" THEN b.query
                                        ELSE u.query,
                              fragment |-> u.fragment])
        ELSE urlunparse([scheme |-> scheme, netloc |-> b.netloc,
                         path |-> IF Head(u.path) = "/" THEN u.path
                                  ELSE DirOf(b.path) \o u.path,
                         query |-> u.query, fragment |-> u.fragment]))))

(***************************************************************************)
(* scraper.py: configuration and inputs.                                   *)
(***************************************************************************)
domain_whitelist == <<"handbook.gitlab.com/handbook", "about.gitlab.com/direction">>

Header == "# GitLab Content Scrape\n\n"

Handbook == "https://handbook.gitlab.com/handbook"
Direction == "https://about.gitlab.com/direction/"
Values == "https://handbook.gitlab.com/handbook/values"

\* the seed lists a scraper is constructed with
SeedLists == {<<Handbook>>, <<Handbook, Direction>>, <<Handbook, Handbook>>,
              <<"https://example.com/docs", Values>>, <<"https://x/y">>}

\* a parsed page: the title element, the results of the find_all calls for
\* the headings, the paragraphs and the anchors that have an href, each in
\* document order, and the tree of its lists: lists are the ul/ol elements
\* that lie in no other list, a list is the sequence of its li children, and
\* an li has its own text and the ul/ol elements nested in it
Item(text) == [text |-> text, lists |-> <<>>]

ScenarioDoc ==
    [has_title |-> TRUE, title_has_string |-> TRUE, title_string |-> "Handbook",
     headings |-> <<>>, paragraphs |-> <<>>, lists |-> <<>>,
     hrefs |-> <<"https://handbook.gitlab.com/handbook/values",
                 "https://handbook.gitlab.com/other",
                 "https://example.com">>]

RelativeDoc ==
    [has_title |-> FALSE, title_has_string |-> FALSE, title_string |-> "",
     headings |-> <<[tag |-> "h1", text |-> "Top"]>>,
     paragraphs |-> <<" ">>, lists |-> <<>>,
     hrefs |-> <<"/handbook/values", "values?x=1#frag", "#top">>]

ValuesDoc ==
    [has_title |-> TRUE, title_has_string |-> TRUE, title_string |-> " Values ",
     headings |-> <<[tag |-> "h2", text |-> "Our Values"],
                    [tag |-> "h1", text |-> "CREDIT"]>>,
     paragraphs |-> <<"Text.">>, lists |-> <<<<Item("One"), Item("")>>>>,
     hrefs |-> <<"http://handbook.gitlab.com/handbook/values",
                 "mailto:dpo@gitlab.com",
                 "https://about.gitlab.com/direction/">>]

EmptyTitleDoc ==
    [has_title |-> TRUE, title_has_string |-> FALSE, title_string |-> "",
     headings |-> <<>>, paragraphs |-> <<"Body">>, lists |-> <<>>,
     hrefs |-> <<"https://handbook.gitlab.com/handbook/values">>]

LeafDoc ==
    [has_title |-> TRUE, title_has_string |-> TRUE, title_string |-> "Leaf",
     headings |-> <<>>, paragraphs |-> <<>>, lists |-> <<>>, hrefs |-> <<>>]

CycleDoc ==
    [has_title |-> TRUE, title_has_string |-> TRUE, title_string |-> "Cycle",
     headings |-> <<>>, paragraphs |-> <<>>, lists |-> <<>>,
     hrefs |-> <<"https://handbook.gitlab.com/handbook",
                 "https://handbook.gitlab.com/handbooks",
                 "//about.gitlab.com/direction/">>]

\* <title>Values</title><h2>Our Values</h2><p>Text.</p><ul><li>One</li></ul>
ExtractionDoc ==
    [has_title |-> TRUE, title_has_string |-> TRUE, title_string |-> "Values",
     headings |-> <<[tag |-> "h2", text |-> "Our Values"]>>,
     paragraphs |-> <<"Text.">>, lists |-> <<<<Item("One")>>>>,
     hrefs |-> <<>>]

\* <title>Lists</title><h3>c</h3><h1>a</h1><h3>d</h3><p>p</p>
\* <ol><li>A<ul><li>B</li></ul></li><li>C</li></ol><p>q</p><ul><li>D</li></ul>
NestedListDoc ==
    [has_title |-> TRUE, title_has_string |-> TRUE, title_string |-> "Lists",
     headings |-> <<[tag |-> "h3", text |-> "c"], [tag |-> "h1", text |-> "a"],
                    [tag |-> "h3", text |-> "d"]>>,
     paragraphs |-> <<"p", "q">>,
     lists |-> <<<<[text |-> "A", lists |-> <<<<Item("B")>>>>], Item("C")>>,
                 <<Item("D")>>>>,
     hrefs |-> <<>>]

Docs == {ScenarioDoc, RelativeDoc, ValuesDoc, EmptyTitleDoc, LeafDoc, CycleDoc,
         ExtractionDoc, NestedListDoc}

\* str(e) of the exceptions requests raises
FetchErrors == {"timed out", "404 Client Error"}

\* str(e) of the AttributeError raised by None.strip()
NoneStripError == "'NoneType' object has no attribute 'strip'"

(***************************************************************************)
(* scraper.py: the pure functions.                                         *)
(***************************************************************************)
is_allowed_url(url) ==
    \E parsed_url \in {urlparse(url)} :
        \E i \in 1..Len(domain_whitelist) :
            LET domain == domain_whitelist[i]
            IN  /\ parsed_url.netloc = split(domain, "/")[1]
                /\ \/ Len(split(domain, "/")) = 1
                   \/ startswith(url, "https://" \o domain)

\* soup.title.string raises inside extract_text when the title has no string
TitleRaises(doc) == doc.has_title /\ ~doc.title_has_string

DigitValue(c) == FirstOf(Digits, {c}) - 1

RECURSIVE HeadingLines(_, _)
HeadingLines(headings, heading_tag) ==
    IF headings = <<>> THEN ""
    ELSE Let(strip(Head(headings).text), LAMBDA text :
             IF Head(headings).tag = heading_tag /\ text # ""
             THEN Repeat("#", DigitValue(CharAt(heading_tag, 2)) + 2)
                    \o " " \o text \o "\n"
             ELSE "")
         \o HeadingLines(Tail(headings), heading_tag)

RECURSIVE ParagraphLines(_)
ParagraphLines(paragraphs) ==
    IF paragraphs = <<>> THEN ""
    ELSE Let(strip(Head(paragraphs)), LAMBDA text :
             IF text # "" THEN text \o "\n\n" ELSE "")
         \o ParagraphLines(Tail(paragraphs))

\* ul.find_all('li'): the li descendants of a list, in document order
RECURSIVE find_all_li(_)
RECURSIVE ListItems(_)
ListItems(lists) ==
    IF lists = <<>> THEN <<>>
    ELSE find_all_li(Head(lists)) \o ListItems(Tail(lists))

find_all_li(ul) ==
    IF ul = <<>> THEN <<>>
    ELSE <<Head(ul)>> \o ListItems(Head(ul).lists) \o find_all_li(Tail(ul))

\* soup.find_all(['ul', 'ol']): every list of the page, nested ones included,
\* in document order
RECURSIVE find_all_ul_ol(_)
RECURSIVE NestedLists(_)
NestedLists(ul) ==
    IF ul = <<>> THEN <<>>
    ELSE find_all_ul_ol(Head(ul).lists) \o NestedLists(Tail(ul))

find_all_ul_ol(lists) ==
    IF lists = <<>> THEN <<>>
    ELSE <<Head(lists)>> \o NestedLists(Head(lists)) \o find_all_ul_ol(Tail(lists))

RECURSIVE OwnTexts(_)
OwnTexts(items) ==
    IF items = <<>> THEN "" ELSE Head(items).text \o OwnTexts(Tail(items))

\* li.get_text(): the text of the li and of everything nested in it
get_text(li) == li.text \o OwnTexts(ListItems(li.lists))

RECURSIVE ItemLines(_)
ItemLines(items) ==
    IF items = <<>> THEN ""
    ELSE Let(strip(get_text(Head(items))), LAMBDA text :
             IF text # "" THEN "- " \o text \o "\n" ELSE "")
         \o ItemLines(Tail(items))

RECURSIVE ListLines(_)
ListLines(lists) ==
    IF lists = <<>> THEN ""
    ELSE ItemLines(find_all_li(Head(lists))) \o ListLines(Tail(lists))

extract_text(doc, url) ==
    LET title == IF doc.has_title THEN doc.title_string ELSE "Untitled Page"
    IN  "\n\n## " \o strip(title) \o "\n"
        \o "URL: " \o url \o "\n"
        \o HeadingLines(doc.headings, "h1") \o HeadingLines(doc.headings, "h2")
        \o HeadingLines(doc.headings, "h3") \o HeadingLines(doc.headings, "h4")
        \o HeadingLines(doc.headings, "h5") \o HeadingLines(doc.headings, "h6")
        \o ParagraphLines(doc.paragraphs)
        \o ListLines(find_all_ul_ol(doc.lists))

\* the URL filter applied to every anchor of a page, in document order
RECURSIVE LinkChecks(_, _)
LinkChecks(hrefs, base_url) ==
    IF hrefs = <<>> THEN <<>>
    ELSE Let(urljoin(base_url, Head(hrefs)), LAMBDA full_url :
             <<[url |-> full_url, allowed |-> is_allowed_url(full_url)]>>)
         \o LinkChecks(Tail(hrefs), base_url)

\* extract_links without the URL filter
RECURSIVE extract_links_unfiltered(_, _)
extract_links_unfiltered(hrefs, base_url) ==
    IF hrefs = <<>> THEN <<>>
    ELSE Let(urljoin(base_url, Head(hrefs)), LAMBDA full_url :
         Let(urlparse(full_url), LAMBDA parsed :
             IF parsed.scheme \in {"http", "https"}
             THEN <<parsed.scheme \o "://" \o parsed.netloc \o parsed.path>>
             ELSE <<>>))
         \o extract_links_unfiltered(Tail(hrefs), base_url)

\* extract_links keeping the query string and the fragment
RECURSIVE extract_links_raw(_, _)
extract_links_raw(hrefs, base_url) ==
    IF hrefs = <<>> THEN <<>>
    ELSE Let(urljoin(base_url, Head(hrefs)), LAMBDA full_url :
         Let(urlparse(full_url), LAMBDA parsed :
             IF parsed.scheme \in {"http", "https"} /\ is_allowed_url(full_url)
             THEN <<full_url>>
             ELSE <<>>))
         \o extract_links_raw(Tail(hrefs), base_url)

RECURSIVE extract_links(_, _)
extract_links(hrefs, base_url) ==
    IF hrefs = <<>> THEN <<>>
    ELSE Let(urljoin(base_url, Head(hrefs)), LAMBDA full_url :
         Let(urlparse(full_url), LAMBDA parsed :
             IF parsed.scheme \in {"http", "https"} /\ is_allowed_url(full_url)
             THEN <<parsed.scheme \o "://" \o parsed.netloc \o parsed.path>>
             ELSE <<>>))
         \o extract_links(Tail(hrefs), base_url)

\* the enqueue loop without its visited test
Unvisited_unchecked(links, visited) == links

\* scrape_url, lines 115-117: the links appended to the queue
RECURSIVE Unvisited(_, _)
Unvisited(links, visited) ==
    IF links = <<>> THEN <<>>
    ELSE (IF Head(links) \notin visited THEN <<Head(links)>> ELSE <<>>)
         \o Unvisited(Tail(links), visited)

\* the error text without the URL
ErrorText_nourl(url, msg) == "\n\nError scraping: " \o msg \o "\n\n"

ErrorText(url, msg) == "\n\nError scraping " \o url \o ": " \o msg \o "\n\n"

\* reading the head of the deque without removing it
popleft_peek(q) == q

popleft(q) == Tail(q)

\* the while condition with an off-by-one budget test
LoopCond_inclusive(q, count, budget) == q # <<>> /\ count <= budget

LoopCond(q, count, budget) == q # <<>> /\ count < budget

\* opening the output file with mode 'w' instead of 'a'
write_truncating(file, content) == content

\* run, lines 149-150: open(output_file, 'a') and f.write(content)
write_append(file, content) == file \o content

(***************************************************************************)
(* scraper.py: GitLabScraper.scrape_url and GitLabScraper.run.             *)
(***************************************************************************)
\* what requests.get and BeautifulSoup hand to scrape_url for one URL:
\* an exception, or the parsed page of a 2xx response
Failed(msg) == [ok |-> FALSE, doc |-> LeafDoc, error |-> msg]
Fetched(doc) == [ok |-> TRUE, doc |-> doc, error |-> ""]

\* scrape_url extracting and enqueueing the links before the text
scrape_url_links_first(url, response, queue, visited) ==
    IF ~response.ok
    THEN [content |-> ErrorText(url, response.error),
          to_visit |-> queue,
          links |-> <<>>,
          visited_urls |-> visited,
          scraped |-> FALSE,
          error |-> response.error]
    ELSE Let(Unvisited(extract_links(response.doc.hrefs, url), visited),
             LAMBDA links :
             IF TitleRaises(response.doc)
             THEN [content |-> ErrorText(url, NoneStripError),
                   to_visit |-> queue \o links,
                   links |-> links,
                   visited_urls |-> visited,
                   scraped |-> FALSE,
                   error |-> NoneStripError]
             ELSE [content |-> extract_text(response.doc, url),
                   to_visit |-> queue \o links,
                   links |-> links,
                   visited_urls |-> visited \cup {url},
                   scraped |-> TRUE,
                   error |-> ""])

\* scrape_url putting the discovered links at the front of the queue
scrape_url_depth_first(url, response, queue, visited) ==
    IF response.ok /\ ~TitleRaises(response.doc)
    THEN Let(Unvisited(extract_links(response.doc.hrefs, url), visited),
             LAMBDA links :
             [content |-> extract_text(response.doc, url),
              to_visit |-> links \o queue,
              links |-> links,
              visited_urls |-> visited \cup {url},
              scraped |-> TRUE,
              error |-> ""])
    ELSE Let(IF response.ok THEN NoneStripError ELSE response.error, LAMBDA msg :
             [content |-> ErrorText(url, msg),
              to_visit |-> queue,
              links |-> <<>>,
              visited_urls |-> visited,
              scraped |-> FALSE,
              error |-> msg])

\* scrape_url marking the URL visited in a finally clause
scrape_url_marks_failed(url, response, queue, visited) ==
    IF response.ok /\ ~TitleRaises(response.doc)
    THEN Let(Unvisited(extract_links(response.doc.hrefs, url), visited),
             LAMBDA links :
             [content |-> extract_text(response.doc, url),
              to_visit |-> queue \o links,
              links |-> links,
              visited_urls |-> visited \cup {url},
              scraped |-> TRUE,
              error |-> ""])
    ELSE Let(IF response.ok THEN NoneStripError ELSE response.error, LAMBDA msg :
             [content |-> ErrorText(url, msg),
              to_visit |-> queue,
              links |-> <<>>,
              visited_urls |-> visited \cup {url},
              scraped |-> FALSE,
              error |-> msg])

\* the result of scrape_url(url): the text it returns, the links it appends
\* to the queue, and the queue and the visited set it leaves behind
scrape_url(url, response, queue, visited) ==
    IF response.ok /\ ~TitleRaises(response.doc)
    THEN Let(Unvisited(extract_links(response.doc.hrefs, url), visited),
             LAMBDA links :
             [content |-> extract_text(response.doc, url),
              to_visit |-> queue \o links,
              links |-> links,
              visited_urls |-> visited \cup {url},
              scraped |-> TRUE,
              error |-> ""])
    ELSE Let(IF response.ok THEN NoneStripError ELSE response.error, LAMBDA msg :
             [content |-> ErrorText(url, msg),
              to_visit |-> queue,
              links |-> <<>>,
              visited_urls |-> visited,
              scraped |-> FALSE,
              error |-> msg])

NoIteration ==
    [op |-> "none", url |-> "", fetched |-> FALSE, soup |-> <<>>, error |-> "",
     hrefs |-> <<>>, checks |-> <<>>]

IdleChat ==
    /\ GEMINI_API_KEY = FALSE
    /\ vector_db = FALSE
    /\ messages = <<>>
    /\ user_query = ""
    /\ calls = <<>>

\* GitLabScraper.__init__
Init ==
    /\ start_urls \in SeedLists
    /\ to_visit = start_urls
    /\ visited_urls = {}
    /\ output_file = Header
    /\ page_count = 0
    /\ max_pages = 0
    /\ pc = "constructed"
    /\ last = NoIteration
    /\ writes = <<>>
    /\ enqueued = start_urls
    /\ IdleChat

\* the call run(max_pages)
run(n) ==
    /\ pc = "constructed"
    /\ max_pages' = n
    /\ page_count' = 0
    /\ pc' = "loop"
    /\ UNCHANGED <<start_urls, to_visit, visited_urls, output_file, last, writes,
                   enqueued>>
    /\ UNCHANGED chatVars

\* the visited test placed after the page counter: a skip counts a page
SkipVisited_counted ==
    /\ pc = "loop"
    /\ LoopCond(to_visit, page_count, max_pages)
    /\ LET url == Head(to_visit)
       IN  /\ url \in visited_urls
           /\ to_visit' = popleft(to_visit)
           /\ last' = [NoIteration EXCEPT !.op = "skip", !.url = url]
    /\ page_count' = page_count + 1
    /\ UNCHANGED <<start_urls, visited_urls, output_file, max_pages, pc, writes,
                   enqueued>>
    /\ UNCHANGED chatVars

\* an iteration that pops an already visited URL
SkipVisited ==
    /\ pc = "loop"
    /\ LoopCond(to_visit, page_count, max_pages)
    /\ LET url == Head(to_visit)
       IN  /\ url \in visited_urls
           /\ to_visit' = popleft(to_visit)
           /\ last' = [NoIteration EXCEPT !.op = "skip", !.url = url]
    /\ UNCHANGED <<start_urls, visited_urls, output_file, page_count,
                   max_pages, pc, writes, enqueued>>
    /\ UNCHANGED chatVars

\* an iteration that scrapes the popped URL, writes its text and counts it
ProcessPage(response) ==
    /\ pc = "loop"
    /\ LoopCond(to_visit, page_count, max_pages)
    /\ Head(to_visit) \notin visited_urls
    /\ \E url \in {Head(to_visit)} :
       \E r \in {scrape_url(url, response, popleft(to_visit), visited_urls)} :
           /\ to_visit' = r.to_visit
           /\ visited_urls' = r.visited_urls
           /\ output_file' = write_append(output_file, r.content)
           /\ page_count' = page_count + 1
           /\ enqueued' = enqueued \o r.links
           /\ writes' = Append(writes, [url |-> url, content |-> r.content,
                                        scraped |-> r.scraped])
           /\ last' = [op |-> IF r.scraped THEN "scraped" ELSE "failed",
                       url |-> url,
                       fetched |-> response.ok,
                       soup |-> IF response.ok THEN <<response.doc>> ELSE <<>>,
                       error |-> r.error,
                       hrefs |-> IF r.scraped THEN response.doc.hrefs ELSE <<>>,
                       checks |-> IF r.scraped
                                  THEN LinkChecks(response.doc.hrefs, url)
                                  ELSE <<>>]
    /\ UNCHANGED <<start_urls, max_pages, pc>>
    /\ UNCHANGED chatVars

\* the while condition is false: run prints the summary and returns
run_exit ==
    /\ pc = "loop"
    /\ ~LoopCond(to_visit, page_count, max_pages)
    /\ pc' = "done"
    /\ UNCHANGED <<start_urls, to_visit, visited_urls, output_file, page_count,
                   max_pages, last, writes, enqueued>>
    /\ UNCHANGED chatVars

Next ==
    \/ \E n \in 0..MaxBudget : run(n)
    \/ SkipVisited
    \/ \E msg \in FetchErrors : ProcessPage(Failed(msg))
    \/ \E doc \in Docs : ProcessPage(Fetched(doc))
    \/ run_exit

Spec == Init /\ [][Next]_vars

\* run is one sequential loop: an iteration that can be taken is taken
FairSpec == Spec /\ WF_vars(Next)

(***************************************************************************)
(* app.py: the chat application.                                           *)
(***************************************************************************)
forbidden_patterns == <<"hack", "exploit", "bypass", "crack", "illegal", "porn",
                        "nsfw", "weapon", "violence">>

Refusal == "I'm not able to help with that request as it goes against ethical usage policies."

\* the characters the regular expression class \w matches
WordChars == Chars(LowerLetters) \cup Chars(UpperLetters) \cup Chars(Digits)
               \cup {"_"}

\* re.search(rf"\b{pattern}\b", s) for a pattern made of word characters
re_search_word(pattern, s) ==
    \E i \in 1..(Len(s) - Len(pattern) + 1) :
        LET j == i + Len(pattern) - 1
        IN  /\ SubSeq(s, i, j) = pattern
            /\ (i = 1 \/ CharAt(s, i - 1) \notin WordChars)
            /\ (j = Len(s) \/ CharAt(s, j + 1) \notin WordChars)

\* generate_response, line 99: the guardrail
IsForbidden(query) ==
    \E lowered \in {lower(query)}, k \in 1..Len(forbidden_patterns) :
        re_search_word(forbidden_patterns[k], lowered)

\* what a user types into the chat input
Queries == {"What are the six core values of GitLab?",
            "how to hack gitlab",
            "Any life-HACK tips?",
            "hackathon ideas",
            "is hack_day illegal?",
            "exploits"}

\* response.text of the language model
Answers == {"GitLab has six core values."}

\* generate_response(query, vector_db, chat_history): the calls it makes and
\* the text it returns, or that it raised; search_ok and answer say what the
\* vector store and the language model do (answer = "" : the call raises)
generate_response(query, search_ok, answer) ==
    IF IsForbidden(query)
    THEN [raised |-> FALSE, text |-> Refusal, calls |-> <<>>]
    ELSE IF ~search_ok
    THEN [raised |-> TRUE, text |-> "", calls |-> <<[api |-> "similarity_search",
                                                     prompt |-> "",
                                                     query |-> query]>>]
    ELSE [raised |-> answer = "", text |-> answer,
          calls |-> <<[api |-> "similarity_search", prompt |-> "",
                       query |-> query],
                      [api |-> "generate_content", prompt |-> "answer",
                       query |-> query]>>]

\* suggest_follow_ups(query, vector_db): one generate_content call
suggest_follow_ups(query) ==
    <<[api |-> "generate_content", prompt |-> "followup", query |-> query]>>

IdleCrawl ==
    /\ start_urls = <<>>
    /\ to_visit = <<>>
    /\ visited_urls = {}
    /\ output_file = Header
    /\ page_count = 0
    /\ max_pages = 0
    /\ pc = "constructed"
    /\ last = NoIteration
    /\ writes = <<>>
    /\ enqueued = <<>>

\* a new session: line 40-41, and what main finds at lines 184-194
ChatInit ==
    /\ GEMINI_API_KEY \in BOOLEAN
    /\ vector_db \in BOOLEAN
    /\ messages = <<>>
    /\ user_query = ""
    /\ calls = <<>>
    /\ IdleCrawl

\* main returns before the chat input without an API key or a vector database
ChatReady == GEMINI_API_KEY /\ vector_db

\* main, lines 210-227: the user submits a query
SubmitQuery(query, search_ok, answer) ==
    /\ ChatReady
    /\ Len(messages) < 2 * MaxTurns
    /\ \E asked \in {Append(messages, [role |-> "user", content |-> query])},
          r \in {generate_response(query, search_ok, answer)} :
           /\ user_query' = query
           /\ IF r.raised
              THEN /\ messages' = asked
                   /\ calls' = r.calls
              ELSE /\ messages' = Append(asked, [role |-> "assistant",
                                                 content |-> r.text])
                   /\ calls' = r.calls \o suggest_follow_ups(query)
    /\ UNCHANGED <<GEMINI_API_KEY, vector_db>>
    /\ UNCHANGED crawlVars

\* main, lines 229-231: the Clear Chat History button
ClearChatHistory ==
    /\ ChatReady
    /\ messages # <<>>
    /\ messages' = <<>>
    /\ user_query' = ""
    /\ calls' = <<>>
    /\ UNCHANGED <<GEMINI_API_KEY, vector_db>>
    /\ UNCHANGED crawlVars

ChatNext ==
    \/ \E query \in Queries, search_ok \in BOOLEAN, answer \in Answers \cup {""} :
           SubmitQuery(query, search_ok, answer)
    \/ ClearChatHistory

ChatSpec == ChatInit /\ [][ChatNext]_vars

(***************************************************************************)
(* Properties of the crawl.                                                *)
(***************************************************************************)
Range(seq) == {seq[i] : i \in 1..Len(seq)}

\* a step of the loop of run that is one iteration; last' describes it
Iteration == pc = "loop" /\ pc' = "loop"

\* C1: no URL is processed (fetched and written to the corpus) more than
\* once during a run: every URL has at most one write.
C1_NoUrlProcessedTwice ==
    \A i, j \in 1..Len(writes) : writes[i].url = writes[j].url => i = j

\* C2: an iteration whose fetch fails appends exactly one entry to the
\* corpus, the block 'Error scraping <url>: <message>', and adds exactly one
\* to the page counter.
C2_FetchFailureWritesErrorBlock ==
    [][(Iteration /\ last'.op = "failed" /\ ~last'.fetched) =>
         /\ output_file' = output_file \o "\n\nError scraping " \o last'.url
                             \o ": " \o last'.error \o "\n\n"
         /\ Len(writes') = Len(writes) + 1
         /\ page_count' = page_count + 1]_vars

C2_Witness ==
    /\ last.op = "failed"
    /\ ~last.fetched
    /\ last.error \in FetchErrors
    /\ page_count >= 1

\* C3: the loop of run eventually exits, whatever the seeds, the links and
\* the fetch failures are.
C3_CrawlTerminates == <>(pc = "done")

C3_Witness ==
    /\ pc = "done"
    /\ page_count > 0
    /\ page_count < max_pages
    /\ last.op = "skip"

\* C4: the page counter never exceeds max_pages, and when run has exited the
\* pending queue is empty or the page counter equals max_pages.
C4_BudgetRespected ==
    /\ page_count <= max_pages
    /\ pc = "done" => (to_visit = <<>> \/ page_count = max_pages)

C4_Witness ==
    /\ pc = "done"
    /\ to_visit # <<>>
    /\ max_pages > 0
    /\ page_count = max_pages

\* the claim's reading of the URL filter: the host is the host of a whitelist
\* entry that has no path, or whose scheme://host/path starts the URL
FilterAsSpecified(url) ==
    \E k \in 1..Len(domain_whitelist), p \in {urlparse(url)} :
        \E parts \in {split(domain_whitelist[k], "/")} :
            /\ p.netloc = parts[1]
            /\ \/ Len(parts) = 1
               \/ startswith(url, p.scheme \o "://" \o domain_whitelist[k])

\* C5: is_allowed_url(url) is true if and only if the host of url is the host
\* of a whitelist entry and the entry has no path or url starts with
\* scheme://host/path for the scheme of url itself, http or https.
C5_FilterMatchesAnyScheme ==
    \A i \in 1..Len(last.checks) :
        last.checks[i].allowed <=> FilterAsSpecified(last.checks[i].url)

WhitelistHosts ==
    {split(domain_whitelist[k], "/")[1] : k \in 1..Len(domain_whitelist)}

\* C6: every pending URL that is not a seed has scheme http or https, a
\* whitelisted host, and is accepted by is_allowed_url.
C6_OnlyInScopeLinksPending ==
    \A i \in 1..Len(to_visit) :
        to_visit[i] \notin Range(start_urls) =>
            \E p \in {urlparse(to_visit[i])} :
                /\ p.scheme \in {"http", "https"}
                /\ p.netloc \in WhitelistHosts
                /\ is_allowed_url(to_visit[i])

C6_Witness ==
    /\ last.op = "scraped"
    /\ \E i \in 1..Len(last.checks) : ~last.checks[i].allowed
    /\ \E i \in 1..Len(to_visit) : to_visit[i] \notin Range(start_urls)

\* a URL without its query string and fragment
WithoutQueryAndFragment(url) == SubSeq(url, 1, FirstOf(url, {"?", "#"}) - 1)

\* the in-scope links of the page of the last iteration
InScopeLinks(checks) ==
    {WithoutQueryAndFragment(checks[i].url) :
        i \in {j \in 1..Len(checks) : checks[j].allowed}}

RECURSIVE JoinWrites(_)
JoinWrites(ws) ==
    IF ws = <<>> THEN "" ELSE Head(ws).content \o JoinWrites(Tail(ws))

\* C9: the corpus starts as the header, every processed page appends exactly
\* one block after the earlier content, blocks are in visit order, and the
\* number of blocks equals the page counter.
C9_CorpusAppendOnly ==
    /\ [](/\ pc = "constructed" => output_file = Header
          /\ output_file = Header \o JoinWrites(writes)
          /\ Len(writes) = page_count)
    /\ [][/\ startswith(output_file', output_file)
          /\ (Iteration /\ last'.op # "skip") =>
                /\ Len(writes') = Len(writes) + 1
                /\ SubSeq(writes', 1, Len(writes)) = writes
                /\ writes'[Len(writes')].url = Head(to_visit)]_vars

C9_Witness ==
    /\ page_count >= 2
    /\ \E i, j \in 1..Len(writes) : writes[i].scraped /\ ~writes[j].scraped

\* C10: a URL is appended to the pending queue only if it is not in the
\* visited set at that moment, and the seeds are enqueued while the visited
\* set is empty.
C10_EnqueueOnlyUnvisited ==
    /\ [](pc = "constructed" => (to_visit = start_urls /\ visited_urls = {}))
    /\ [][Iteration =>
            \A i \in Len(to_visit)..Len(to_visit') :
                to_visit'[i] \notin visited_urls]_vars

\* a link of the page just scraped was already visited, and was not enqueued
C10_Witness ==
    /\ last.op = "scraped"
    /\ \E i \in 1..Len(last.checks) :
          /\ last.checks[i].allowed
          /\ WithoutQueryAndFragment(last.checks[i].url)
               \in visited_urls \ {last.url}
          /\ WithoutQueryAndFragment(last.checks[i].url) \notin Range(to_visit)

\* C11: every page that was counted, whether its fetch succeeded or failed,
\* is in the visited set at the end of its iteration.
C11_ProcessedPagesAreVisited ==
    \A i \in 1..Len(writes) : writes[i].url \in visited_urls

\* C12: a page that was fetched successfully always yields an extracted
\* document block, never an error block, whatever elements the HTML lacks.
C12_FetchedPageIsExtracted ==
    (last.op \in {"scraped", "failed"} /\ last.fetched) =>
        /\ last.op = "scraped"
        /\ startswith(writes[Len(writes)].content, "\n\n## ")

\* C13: a failure of scrape_url is isolated: the run stays in its loop, and
\* the failed iteration changes neither the visited set nor the queue apart
\* from the pop of its URL, so no link of the failed page is enqueued.
C13_FailureIsIsolated ==
    [][(/\ pc = "loop"
        /\ Len(writes') = Len(writes) + 1
        /\ ~writes'[Len(writes')].scraped)
       => /\ pc' = "loop"
          /\ writes'[Len(writes')].url = Head(to_visit)
          /\ to_visit' = Tail(to_visit)
          /\ visited_urls' = visited_urls]_vars

\* a fetched page failed in extract_text after an earlier page had failed, and
\* URLs are still pending: the run went on
C13_Witness ==
    /\ last.op = "failed"
    /\ last.fetched
    /\ last.error = NoneStripError
    /\ to_visit # <<>>
    /\ Len(writes) >= 2
    /\ ~writes[1].scraped

FirstEnqueued(url) ==
    CHOOSE i \in 1..Len(enqueued) :
        enqueued[i] = url /\ \A j \in 1..(i - 1) : enqueued[j] # url

\* the position of the first corpus block of url
FirstBlock(url) ==
    CHOOSE i \in 1..Len(writes) :
        writes[i].url = url /\ \A j \in 1..(i - 1) : writes[j].url # url

\* C15: traversal is FIFO: the seeds are enqueued first, in seed order, the
\* pending queue is always the tail end of the history of appends, every
\* iteration pops the oldest pending entry and appends what it discovers
\* behind the others, and of two processed URLs the one whose first entry
\* was enqueued earlier has the earlier corpus block.
C15_BreadthFirstFifo ==
    /\ [](/\ Len(start_urls) <= Len(enqueued)
          /\ SubSeq(enqueued, 1, Len(start_urls)) = start_urls
          /\ Len(to_visit) <= Len(enqueued)
          /\ to_visit = SubSeq(enqueued, Len(enqueued) - Len(to_visit) + 1,
                               Len(enqueued))
          /\ \A u, v \in {writes[i].url : i \in 1..Len(writes)} :
                 FirstEnqueued(u) < FirstEnqueued(v) => FirstBlock(u) < FirstBlock(v)
          /\ output_file = Header \o JoinWrites(writes))
    /\ [][Iteration =>
              /\ last'.url = Head(to_visit)
              /\ Len(enqueued) <= Len(enqueued')
              /\ SubSeq(enqueued', 1, Len(enqueued)) = enqueued
              /\ to_visit' = Tail(to_visit)
                             \o SubSeq(enqueued', Len(enqueued) + 1, Len(enqueued'))]_vars

\* both seeds and then a discovered link were processed, in that order
C15_Witness ==
    /\ Len(start_urls) = 2
    /\ Len(writes) = 3
    /\ writes[1].url = start_urls[1]
    /\ writes[2].url = start_urls[2]
    /\ writes[3].url \notin Range(start_urls)
    /\ to_visit # <<>>

RECURSIVE Concat(_)
Concat(lines) == IF lines = <<>> THEN "" ELSE Head(lines) \o Concat(Tail(lines))

\* the trimmed texts that are not empty, in their order
NonEmptyTexts(texts) ==
    SelectSeq([i \in 1..Len(texts) |-> strip(texts[i])], LAMBDA t : t # "")

\* the headings of one tag type, in document order, as Markdown headings
HeadingGroup(doc, level) ==
    LET tag == <<"h1", "h2", "h3", "h4", "h5", "h6">>[level]
        group == SelectSeq(doc.headings, LAMBDA h : h.tag = tag)
        texts == NonEmptyTexts([i \in 1..Len(group) |-> group[i].text])
    IN  Concat([i \in 1..Len(texts) |->
                   Repeat("#", level + 2) \o " " \o texts[i] \o "\n"])

\* the text block as described: title heading, URL line, heading groups h1
\* to h6, paragraphs, then every list item of the document once, in
\* document order, as a bullet
TextAsSpecified(doc, url) ==
    LET title == IF doc.has_title THEN doc.title_string ELSE "Untitled Page"
        paragraphs == NonEmptyTexts(doc.paragraphs)
        items == ListItems(doc.lists)
        bullets == NonEmptyTexts([i \in 1..Len(items) |-> get_text(items[i])])
    IN  "\n\n## " \o strip(title) \o "\n"
        \o "URL: " \o url \o "\n"
        \o Concat([level \in 1..6 |-> HeadingGroup(doc, level)])
        \o Concat([i \in 1..Len(paragraphs) |-> paragraphs[i] \o "\n\n"])
        \o Concat([i \in 1..Len(bullets) |-> "- " \o bullets[i] \o "\n"])

\* C16: extract_text emits the title heading, the URL line, the non-empty
\* headings grouped by tag type h1 to h6, the non-empty paragraphs and then
\* the non-empty list items of the document in document order; for the
\* document <title>Values</title><h2>Our Values</h2><p>Text.</p>
\* <ul><li>One</li></ul> at https://x/y the block is '## Values',
\* 'URL: https://x/y', '#### Our Values', 'Text.', '- One'.
C16_ExtractionOrder ==
    last.op = "scraped" =>
        LET doc == last.soup[1]
            block == writes[Len(writes)].content
        IN  /\ block = TextAsSpecified(doc, last.url)
            /\ (doc = ExtractionDoc /\ last.url = "https://x/y") =>
                   block = "\n\n## Values\nURL: https://x/y\n"
                           \o "#### Our Values\nText.\n\n- One\n"

\* C17: no URL is successfully scraped more than once: the visited set is
\* exactly the set of URLs whose fetch and extraction succeeded, it only
\* grows, and no iteration fetches a URL after that URL was scraped, whatever
\* entries of it remain in the queue.
C17_ScrapedAtMostOnce ==
    /\ [](/\ visited_urls = {writes[i].url : i \in {j \in 1..Len(writes) :
                                                    writes[j].scraped}}
          /\ \A i, j \in 1..Len(writes) :
                 i < j /\ writes[i].scraped => writes[j].url # writes[i].url)
    /\ [][/\ visited_urls \subseteq visited_urls'
          /\ (Iteration /\ Head(to_visit) \in visited_urls) => writes' = writes]_vars

\* a page failed, another was scraped, and an entry of the scraped URL was
\* skipped while a further entry of a visited URL is still pending
C17_Witness ==
    /\ last.op = "skip"
    /\ \E i \in 1..Len(writes) : ~writes[i].scraped
    /\ \E i \in 1..Len(to_visit) : to_visit[i] \in visited_urls

(***************************************************************************)
(* Properties of the chat application.                                     *)
(***************************************************************************)
\* C8: a query that matches a denylist word as a whole word is handled
\* without any similarity search and without any generate call.
C8_ForbiddenQueryMakesNoCalls ==
    (user_query # "" /\ IsForbidden(user_query)) => calls = <<>>

====
